---- MODULE Spec2Model ----
(***************************************************************************)
(* The local lifelog store of lifelog/core/data_manager.py                 *)
(* (LifelogDataManager): one manager instance, its in-memory cache, the    *)
(* JSON file behind it, the wall clock and the remote (Convex) store it    *)
(* reconciles with.                                                        *)
(*                                                                         *)
(* Conventions.                                                            *)
(*   - A Python Optional is a sequence of length at most one: None is <<>> *)
(*     and a present value v is <<v>>.                                     *)
(*   - A Python dict is a function from its keys; a dict of the store      *)
(*     with fixed keys is a record.                                        *)
(*   - The clock counts minutes.  An ISO-8601 string is the record         *)
(*     [iso |-> t] of the minute it was formatted from.                    *)
(*   - A record's timestamp counts milliseconds, and so do the date        *)
(*     strings get_lifelogs is given: [iso |-> ms] without a UTC offset,   *)
(*     [iso |-> ms, offset |-> 0] with one, [text |-> ...] for a string    *)
(*     that is no ISO-8601 date.                                           *)
(*   - A call added with the read operations returns Return(v) or leaves   *)
(*     by Raise(e).                                                        *)
(***************************************************************************)
EXTENDS Integers, Sequences, FiniteSets, TLC

VARIABLES
    now,             \* datetime.now(), in minutes
    convex_client,   \* self.convex_client is configured
    cache,           \* self._cache: None or the store document
    file,            \* the file self.db_file
    remote,          \* the remote store's records, by id
    last,            \* the call that has just returned and the state it was made in, until the caller moves on
    reconciled,      \* when the last completed reconciliation finished (None: never)
    api,             \* the LifelogAPIClient.get_lifelogs call in progress, and the source it pages through
    other_cache      \* self._cache of a second manager on the same data_dir, in another process

vars == <<now, convex_client, cache, file, remote, last, reconciled, api, other_cache>>

\* ------------------------------------------------------------------ bounds

\* The clock stops advancing here in Spec, whose records vary.
MaxTime == 1

\* The clock stops advancing here in SpecGrace, whose clock outruns the grace window.
MaxGraceTime == 5

\* The longest list handed to one save_lifelogs call.
MaxBatch == 1

\* The grace window of sync_with_cloud: timedelta(minutes=5).
SYNC_GRACE_MINUTES == 5

\* The most records a store file holds where the read operations start (SpecRead).
MaxStored == 3

\* The oldest local sync time a store file carries in SpecRead, in minutes before the start.
MaxAge == 3

\* The largest freshness threshold is_api_call_needed is called with, in minutes.
MaxThreshold == 2

\* The largest limit get_lifelogs is called with.
MaxLimit == 1

\* The deepest nesting of ContentItems in the records the conversions are applied to.
MaxDepth == 1

\* The largest limit and batch_size the API client's get_lifelogs is called with, and
\* the most requests one call is followed through.
MaxApiLimit == 3
MaxBatchSize == 2
MaxRequests == 3

\* ------------------------------------------------------------ Python values

None == <<>>

Some(v) == <<v>>

EmptyDict == [k \in {} |-> k]

\* A set as a list, in some fixed order.
RECURSIVE ListOf(_)
ListOf(S) ==
    IF S = {} THEN <<>>
    ELSE LET x == CHOOSE y \in S : TRUE IN <<x>> \o ListOf(S \ {x})

\* The elements of a list.
Elems(s) == {s[i] : i \in DOMAIN s}

\* dict.keys()
keys(d) == DOMAIN d

\* list(d.keys()): the keys, whose order no operation reads.
list_keys(d) == DOMAIN d

\* datetime.isoformat() and datetime.fromisoformat() on this clock.
isoformat(t) == [iso |-> t]

fromisoformat(s) == s.iso

\* fromisoformat accepts the string (it raises ValueError otherwise).
parses(s) == "iso" \in DOMAIN s

\* The datetime parsed from the string carries a UTC offset; comparing it with, or
\* subtracting it from, one that carries none raises TypeError.
aware(s) == "offset" \in DOMAIN s

\* datetime.fromtimestamp(timestamp / 1000): the local datetime, to the millisecond.
fromtimestamp(ms) == ms

\* The value a call returns, and the exception a call leaves by.
Return(v) == [value |-> v]

Raise(e) == [raised |-> e]

\* The orders a dict of the given keys can have been filled in.
Orders(S) ==
    {s \in [1..Cardinality(S) -> S] : \A i, j \in 1..Cardinality(S) : i # j => s[i] # s[j]}

\* s[:n]
take(s, n) == SubSeq(s, 1, IF n < Len(s) THEN n ELSE Len(s))

\* ------------------------------------------------------------------ schemas

\* ContentItem(type, content) with the dataclass defaults.
ContentItem(type, content) ==
    [type |-> type, content |-> content, start_time |-> None, end_time |-> None,
     start_offset_ms |-> None, end_offset_ms |-> None, children |-> Some(<<>>),
     speaker_name |-> None, speaker_identifier |-> None]

\* Lifelog(id, title, markdown, contents, timestamp)
Lifelog(id, title, contents, timestamp) ==
    [id |-> id, title |-> title, markdown |-> "", contents |-> contents,
     timestamp |-> timestamp]

RECURSIVE content_item_to_dict(_)
content_item_to_dict(item) ==
    LET present ==
            {"type", "content"}
            \cup (IF item.start_time # None THEN {"startTime"} ELSE {})
            \cup (IF item.end_time # None THEN {"endTime"} ELSE {})
            \cup (IF item.start_offset_ms # None THEN {"startOffsetMs"} ELSE {})
            \cup (IF item.end_offset_ms # None THEN {"endOffsetMs"} ELSE {})
            \cup (IF item.children # None /\ item.children[1] # <<>>
                  THEN {"children"} ELSE {})
            \cup (IF item.speaker_name # None THEN {"speakerName"} ELSE {})
            \cup (IF item.speaker_identifier # None THEN {"speakerIdentifier"} ELSE {})
    IN [k \in present |->
            CASE k = "type" -> item.type
              [] k = "content" -> item.content
              [] k = "startTime" -> item.start_time[1]
              [] k = "endTime" -> item.end_time[1]
              [] k = "startOffsetMs" -> item.start_offset_ms[1]
              [] k = "endOffsetMs" -> item.end_offset_ms[1]
              [] k = "children" ->
                    [i \in DOMAIN item.children[1] |->
                        content_item_to_dict(item.children[1][i])]
              [] k = "speakerName" -> item.speaker_name[1]
              [] k = "speakerIdentifier" -> item.speaker_identifier[1]]

lifelog_to_dict(lifelog) ==
    [id |-> lifelog.id,
     title |-> lifelog.title,
     markdown |-> lifelog.markdown,
     contents |-> [i \in DOMAIN lifelog.contents |->
                      content_item_to_dict(lifelog.contents[i])],
     timestamp |-> lifelog.timestamp]

RECURSIVE dict_to_content_item(_)
dict_to_content_item(data) ==
    LET get(k) == IF k \in DOMAIN data THEN Some(data[k]) ELSE None
    IN [type |-> data.type,
        content |-> data.content,
        start_time |-> get("startTime"),
        end_time |-> get("endTime"),
        start_offset_ms |-> get("startOffsetMs"),
        end_offset_ms |-> get("endOffsetMs"),
        children |-> IF "children" \in DOMAIN data /\ data.children # <<>>
                     THEN Some([i \in DOMAIN data.children |->
                                   dict_to_content_item(data.children[i])])
                     ELSE None,
        speaker_name |-> get("speakerName"),
        speaker_identifier |-> get("speakerIdentifier")]

dict_to_lifelog(data) ==
    [id |-> data.id,
     title |-> data.title,
     markdown |-> data.markdown,
     contents |-> [i \in DOMAIN data.contents |-> dict_to_content_item(data.contents[i])],
     timestamp |-> IF "timestamp" \in DOMAIN data THEN data.timestamp ELSE None]

\* ------------------------------------------------------------------ inputs

\* The record ids in play.
Ids == {"A", "B", "C"}

\* The records callers and other clients hold: one version of A and of C, two
\* versions of B that differ in title, contents and timestamp.
Lifelogs ==
    { Lifelog("A", "a", <<>>, Some(1000)),
      Lifelog("B", "b", <<>>, None),
      Lifelog("B", "b2", <<ContentItem("heading1", "h")>>, Some(2000)),
      Lifelog("C", "c", <<>>, Some(3000)) }

\* The records in play where the clock runs long: A and C.
GraceLifelogs == {l \in Lifelogs : l.id \in {"A", "C"}}

\* The records of the stores the read operations start from: one with no timestamp,
\* three a millisecond apart, and one from before the epoch.
ReadLifelogs ==
    { Lifelog("N", "n", <<>>, None),
      Lifelog("P", "p", <<>>, Some(999)),
      Lifelog("Q", "q", <<ContentItem("heading1", "h")>>, Some(1000)),
      Lifelog("R", "r", <<>>, Some(1001)),
      Lifelog("M", "m", <<>>, Some(0 - 5)) }

\* The date strings get_lifelogs is called with: none, the millisecond of record Q
\* without and with a UTC offset, and a string that is no date.
Dates ==
    { None, Some([iso |-> 1000]), Some([iso |-> 1000, offset |-> 0]),
      Some([text |-> "yesterday"]) }

\* The limits get_lifelogs is called with.
Limits == {None} \cup {Some(n) : n \in 1..MaxLimit}

\* The directions get_lifelogs is called with.
Directions == {"asc", "desc", "DESC"}

\* The ContentItems without children: each optional field set or unset, children the
\* dataclass default (an empty list) or None.
LeafItems ==
    { [ContentItem("blockquote", "c") EXCEPT
          !.start_time = st, !.end_offset_ms = eo, !.speaker_name = sn,
          !.speaker_identifier = si, !.children = ch] :
        st \in {None, Some("2024-03-01T12:00:00")}, eo \in {None, Some(40)},
        sn \in {None, Some("s")}, si \in {None, Some("user")},
        ch \in {None, Some(<<>>)} }

\* The ContentItem trees nested at most d deep.
RECURSIVE Items(_)
Items(d) ==
    IF d = 0 THEN LeafItems
    ELSE Items(d - 1)
         \cup {[ContentItem("heading1", "h") EXCEPT !.children = Some(<<c>>)] : c \in Items(d - 1)}

\* The records the conversions are applied to.
SchemaLifelogs ==
    {Lifelog("A", "a", contents, timestamp) :
        contents \in {<<>>} \cup {<<c>> : c \in Items(MaxDepth)},
        timestamp \in {None, Some(1000)}}

\* The lists over L that save_lifelogs is called with, the empty one among them.
Batches(L) == UNION {[1..n -> L] : n \in 0..MaxBatch}

\* --------------------------------------------------------------- the store

\* _create_default_db
create_default_db(t) ==
    [lifelogs |-> EmptyDict,
     meta |-> [source_update_time |-> Some(isoformat(t)),
               cloud_update_time |-> None,
               total_entries |-> 0,
               ids |-> {}]]

\* The meta block load_database and get_local_metadata build when a document has none.
default_meta(db, t) ==
    LET logs == IF "lifelogs" \in DOMAIN db THEN db.lifelogs ELSE EmptyDict
    IN [source_update_time |-> Some(isoformat(t)),
        cloud_update_time |-> None,
        total_entries |-> Cardinality(keys(logs)),
        ids |-> list_keys(logs)]

\* json_dump that writes the lifelogs mapping alone.
json_dump_lifelogs(db) == [kind |-> "json", doc |-> [lifelogs |-> db.lifelogs]]

\* json.dump(db, f): the file then holds the document.
json_dump(db) == [kind |-> "json", doc |-> db]

\* load_database that reads the file on every call, whatever the cache holds.
load_database_reread(c, f, t) ==
    IF f.kind = "undecodable" THEN Raise("UnicodeDecodeError")
    ELSE IF f.kind = "json" THEN
        LET db0 == f.doc
            db1 == IF "lifelogs" \notin DOMAIN db0
                   THEN db0 @@ ("lifelogs" :> EmptyDict) ELSE db0
            db2 == IF "meta" \notin DOMAIN db1
                   THEN db1 @@ ("meta" :> default_meta(db1, t)) ELSE db1
        IN db2
    ELSE create_default_db(t)

\* load_database: the document it returns (the caller's cache becomes it).  The file
\* is opened as UTF-8 text: bytes that do not decode leave json.load as a
\* UnicodeDecodeError, which the except clause for JSONDecodeError does not catch.
load_database(c, f, t) ==
    IF c # None THEN c[1]
    ELSE IF f.kind = "undecodable" THEN Raise("UnicodeDecodeError")
    ELSE IF f.kind = "json" THEN
        LET db0 == f.doc
            db1 == IF "lifelogs" \notin DOMAIN db0
                   THEN db0 @@ ("lifelogs" :> EmptyDict) ELSE db0
            db2 == IF "meta" \notin DOMAIN db1
                   THEN db1 @@ ("meta" :> default_meta(db1, t)) ELSE db1
        IN db2
    ELSE create_default_db(t)

\* The meta block with total_entries and ids recomputed from lifelogs.
recount(db) ==
    [db EXCEPT !.meta.total_entries = Cardinality(keys(db.lifelogs)),
               !.meta.ids = list_keys(db.lifelogs)]

\* upsert_all that keeps the stored record when the id is already a key.
RECURSIVE upsert_keep_existing(_, _)
upsert_keep_existing(logs, lifelogs) ==
    IF lifelogs = <<>> THEN logs
    ELSE LET l == Head(lifelogs)
             d == lifelog_to_dict(l)
         IN upsert_keep_existing(
                [k \in keys(logs) \cup {l.id} |->
                    IF k \in keys(logs) THEN logs[k] ELSE d],
                Tail(lifelogs))

\* upsert_all that stores each record under a key derived from its title.
RECURSIVE upsert_rekeyed(_, _)
upsert_rekeyed(logs, lifelogs) ==
    IF lifelogs = <<>> THEN logs
    ELSE LET l == Head(lifelogs)
             d == lifelog_to_dict(l)
         IN upsert_rekeyed([k \in keys(logs) \cup {l.title} |-> IF k = l.title THEN d ELSE logs[k]],
                           Tail(lifelogs))

\* The loop of save_lifelogs: db["lifelogs"][lifelog.id] = lifelog_to_dict(lifelog).
RECURSIVE upsert_all(_, _)
upsert_all(logs, lifelogs) ==
    IF lifelogs = <<>> THEN logs
    ELSE LET l == Head(lifelogs)
             d == lifelog_to_dict(l)
         IN upsert_all([k \in keys(logs) \cup {l.id} |-> IF k = l.id THEN d ELSE logs[k]],
                       Tail(lifelogs))

\* --------------------------------------------------------- the remote store

\* query("lifelogs:getAll"): the remote's records as a list.
getAll(r) == ListOf({r[k] : k \in keys(r)})

\* mutation("lifelogs:batchAdd", {"lifelogs": dicts}): the remote store after it.
RECURSIVE batchAdd(_, _)
batchAdd(r, dicts) ==
    IF dicts = <<>> THEN r
    ELSE LET d == Head(dicts)
         IN batchAdd([k \in keys(r) \cup {d.id} |-> IF k = d.id THEN d ELSE r[k]],
                     Tail(dicts))

\* ------------------------------------------------------------------- calls

\* No call has returned that the caller has not yet moved on from.
Idle == [op |-> "none", args |-> <<>>, result |-> <<>>, calls |-> <<>>, sent |-> <<>>,
         pre |-> <<>>]

\* The store document as load_database returns it.
Doc == load_database(cache, file, now)

\* The state a call is made in: the store document, the file, the remote store, the
\* time of the last completed reconciliation and the cache.
Pre == [db |-> Doc, file |-> file, remote |-> remote, reconciled |-> reconciled,
        cache |-> cache]

\* A remote call that returned, and one that raised.
Ok(fn) == [fn |-> fn, ok |-> TRUE]

Raised(fn) == [fn |-> fn, ok |-> FALSE]

\* A remote query that returned `answer`.
Answered(fn, answer) == [fn |-> fn, ok |-> TRUE, answer |-> answer]

\* A call that has returned `result` after the remote calls `calls`, the remote
\* having taken `sent` through batchAdd.
Returned(op, args, result, calls, sent) ==
    [op |-> op, args |-> args, result |-> result, calls |-> calls, sent |-> sent,
     pre |-> Pre]

\* No LifelogAPIClient.get_lifelogs call has been made.
NoApiCall == [pc |-> "none"]

Init ==
    /\ now = 0
    /\ convex_client \in BOOLEAN
    /\ cache = None
    /\ file \in { [kind |-> "missing"],
                  [kind |-> "corrupt"],
                  \* written by an earlier run that saved A and never reached the remote
                  json_dump([lifelogs |-> upsert_all(EmptyDict, <<Lifelog("A", "a", <<>>, Some(1000))>>),
                             meta |-> [source_update_time |-> Some(isoformat(0)),
                                       cloud_update_time |-> None,
                                       total_entries |-> 1,
                                       ids |-> {"A"}]]),
                  \* a document of the older layout, with no meta block
                  json_dump([lifelogs |-> upsert_all(EmptyDict, <<Lifelog("B", "b", <<>>, None)>>)]) }
    /\ remote = EmptyDict
    /\ last = Idle
    /\ reconciled = None
    /\ api = NoApiCall
    /\ other_cache = None

\* The clock advances by a minute.
Tick(max) ==
    /\ last = Idle
    /\ now < max
    /\ now' = now + 1
    /\ UNCHANGED <<convex_client, cache, file, remote, last, reconciled, api, other_cache>>

\* Another client of the remote store adds or replaces a record there.
RemoteAdd(L) ==
    /\ last = Idle
    /\ convex_client
    /\ \E l \in L :
          remote' = batchAdd(remote, <<lifelog_to_dict(l)>>)
    /\ remote' # remote
    /\ UNCHANGED <<now, convex_client, cache, file, last, reconciled, api, other_cache>>

\* The caller moves on from the call that has returned.
Continue ==
    /\ last # Idle
    /\ last' = Idle
    /\ UNCHANGED <<now, convex_client, cache, file, remote, reconciled, api, other_cache>>

\* ------------------------------------------------------------ save_lifelogs

\* save_local that leaves the local sync time as it was.
save_local_unstamped(db, lifelogs, t) ==
    recount([db EXCEPT !.lifelogs = upsert_all(@, lifelogs)])

\* save_lifelogs, lines 54-68: the document after the upsert loop and the metadata update.
save_local(db, lifelogs, t) ==
    recount([db EXCEPT !.lifelogs = upsert_all(@, lifelogs),
                       !.meta.source_update_time = Some(isoformat(t))])

\* save_lifelogs, line 84: the cloud sync time after a push that succeeded.
save_pushed(db, t) == [db EXCEPT !.meta.cloud_update_time = Some(isoformat(t))]

\* not_lifelogs that takes no list for empty.
not_lifelogs_never(lifelogs) == FALSE

\* Line 50, `not lifelogs`: there is nothing to save.
not_lifelogs(lifelogs) == lifelogs = <<>>

\* save_lifelogs(lifelogs); mutation_ok: the remote batchAdd does not raise.
save_lifelogs(lifelogs, mutation_ok) ==
    /\ last = Idle
    /\ IF not_lifelogs(lifelogs) THEN
           /\ last' = Returned("save_lifelogs", lifelogs, "db_file", <<>>, <<>>)
           /\ UNCHANGED <<now, convex_client, cache, file, remote, reconciled, api, other_cache>>
       ELSE
           LET db0 == load_database(cache, file, now)
               db1 == save_local(db0, lifelogs, now)
               lifelog_dicts == [i \in DOMAIN lifelogs |-> lifelog_to_dict(lifelogs[i])]
               db2 == save_pushed(db1, now)
           IN IF ~convex_client THEN
                  /\ cache' = Some(db1)
                  /\ file' = json_dump(db1)
                  /\ last' = Returned("save_lifelogs", lifelogs, "db_file", <<>>, <<>>)
                  /\ UNCHANGED <<now, convex_client, remote, reconciled, api, other_cache>>
              ELSE IF mutation_ok THEN
                  /\ cache' = Some(db2)
                  /\ file' = json_dump(db2)
                  /\ remote' = batchAdd(remote, lifelog_dicts)
                  /\ last' = Returned("save_lifelogs", lifelogs, "db_file",
                                      <<Ok("lifelogs:batchAdd")>>, lifelog_dicts)
                  /\ UNCHANGED <<now, convex_client, reconciled, api, other_cache>>
              ELSE
                  /\ cache' = Some(db1)
                  /\ file' = json_dump(db1)
                  /\ last' = Returned("save_lifelogs", lifelogs, "db_file",
                                      <<Raised("lifelogs:batchAdd")>>, <<>>)
                  /\ UNCHANGED <<now, convex_client, remote, reconciled, api, other_cache>>

\* ------------------------------------------------------- local metadata

\* LocalMetadata(**meta): the metadata mapping, read by key.
LocalMetadata(meta) == meta

\* get_local_metadata: the document it leaves in the cache.
get_local_metadata_db(c, f, t) ==
    LET db == load_database(c, f, t)
    IN IF "meta" \notin DOMAIN db THEN db @@ ("meta" :> default_meta(db, t)) ELSE db

\* get_local_metadata()
get_local_metadata ==
    /\ last = Idle
    /\ LET db == get_local_metadata_db(cache, file, now)
       IN /\ cache' = Some(db)
          /\ last' = Returned("get_local_metadata", <<>>, LocalMetadata(db.meta), <<>>, <<>>)
          /\ UNCHANGED <<now, convex_client, file, remote, reconciled, api, other_cache>>

\* update_local_metadata, lines 398-409: the document it writes.
updated_metadata(db, update_source, update_cloud, t) ==
    LET current_time == isoformat(t)
        db1 == IF update_source
               THEN [db EXCEPT !.meta.source_update_time = Some(current_time)] ELSE db
        db2 == IF update_cloud
               THEN [db1 EXCEPT !.meta.cloud_update_time = Some(current_time)] ELSE db1
    IN recount(db2)

\* update_local_metadata(update_source, update_cloud)
update_local_metadata(update_source, update_cloud) ==
    /\ last = Idle
    /\ LET db == updated_metadata(load_database(cache, file, now), update_source, update_cloud, now)
       IN /\ cache' = Some(db)
          /\ file' = json_dump(db)
          /\ last' = Returned("update_local_metadata", <<update_source, update_cloud>>,
                              LocalMetadata(db.meta), <<>>, <<>>)
          /\ UNCHANGED <<now, convex_client, remote, reconciled, api, other_cache>>

\* ---------------------------------------------------------- sync_with_cloud

\* recent_sync with a window one minute short.
recent_sync_short(local_metadata, force, t) ==
    /\ ~force
    /\ local_metadata.cloud_update_time # None
    /\ t - fromisoformat(local_metadata.cloud_update_time[1]) < SYNC_GRACE_MINUTES - 1

\* recent_sync with a window one minute long.
recent_sync_long(local_metadata, force, t) ==
    /\ ~force
    /\ local_metadata.cloud_update_time # None
    /\ t - fromisoformat(local_metadata.cloud_update_time[1]) < SYNC_GRACE_MINUTES + 1

\* recent_sync that a forced call does not get past.
recent_sync_forced(local_metadata, force, t) ==
    /\ local_metadata.cloud_update_time # None
    /\ t - fromisoformat(local_metadata.cloud_update_time[1]) < SYNC_GRACE_MINUTES

\* Lines 434-450: a non-forced call finds a cloud sync time less than five minutes old.
recent_sync(local_metadata, force, t) ==
    /\ ~force
    /\ local_metadata.cloud_update_time # None
    /\ t - fromisoformat(local_metadata.cloud_update_time[1]) < SYNC_GRACE_MINUTES

\* add_cloud_logs that makes the local mapping a mirror of the cloud's records.
add_cloud_logs_mirror(local_logs, cloud_logs) ==
    [k \in {cloud_logs[i].id : i \in DOMAIN cloud_logs} |->
        cloud_logs[CHOOSE i \in DOMAIN cloud_logs : cloud_logs[i].id = k]]

\* add_cloud_logs that lets the cloud's record replace the local one of the same id.
add_cloud_logs_overwrite(local_logs, cloud_logs) ==
    [k \in keys(local_logs) \cup {cloud_logs[i].id : i \in DOMAIN cloud_logs} |->
        IF \E i \in DOMAIN cloud_logs : cloud_logs[i].id = k
        THEN cloud_logs[CHOOSE i \in DOMAIN cloud_logs : cloud_logs[i].id = k]
        ELSE local_logs[k]]

\* Lines 470-476: the local mapping after the loop over the cloud's records,
\* which inserts each record whose id is not yet a key.
RECURSIVE add_cloud_logs(_, _)
add_cloud_logs(local_logs, cloud_logs) ==
    IF cloud_logs = <<>> THEN local_logs
    ELSE LET cloud_log == Head(cloud_logs)
         IN add_cloud_logs(
                IF cloud_log.id \notin keys(local_logs)
                THEN [k \in keys(local_logs) \cup {cloud_log.id} |->
                         IF k = cloud_log.id THEN cloud_log ELSE local_logs[k]]
                ELSE local_logs,
                Tail(cloud_logs))

\* added_to_local that counts every record the cloud returned.
count_added_all(local_logs, cloud_logs) == Len(cloud_logs)

\* Lines 465, 476: stats["added_to_local"], raised by one for each record the loop
\* inserts.
RECURSIVE count_added(_, _)
count_added(local_logs, cloud_logs) ==
    IF cloud_logs = <<>> THEN 0
    ELSE LET cloud_log == Head(cloud_logs)
         IN IF cloud_log.id \notin keys(local_logs)
            THEN 1 + count_added(add_cloud_logs(local_logs, <<cloud_log>>), Tail(cloud_logs))
            ELSE count_added(local_logs, Tail(cloud_logs))

\* missing_from_cloud without the set difference: every local record is uploaded.
missing_from_cloud_all(local_logs, cloud_logs) == keys(local_logs)

\* Lines 479-480, evaluated on the mapping the loop above has filled.
missing_from_cloud(local_logs, cloud_logs) ==
    keys(local_logs) \ {cloud_logs[i].id : i \in DOMAIN cloud_logs}

\* Line 484: the records to upload.
missing_logs(local_logs, cloud_logs) ==
    ListOf({local_logs[id] : id \in missing_from_cloud(local_logs, cloud_logs)})

\* sync_stamp that leaves the local sync time as it was.
sync_stamp_cloud_only(db, t) ==
    recount([db EXCEPT !.meta.cloud_update_time = Some(isoformat(t))])

\* Lines 492-496: the metadata after a pass whose remote calls succeeded.
sync_stamp(db, t) ==
    recount([db EXCEPT !.meta.source_update_time = Some(isoformat(t)),
                       !.meta.cloud_update_time = Some(isoformat(t))])

\* not_configured reported as a success.
not_configured_success == [success |-> TRUE, error |-> "No Convex client configured"]

\* The result returned when no client is configured (line 429).
not_configured == [success |-> FALSE, error |-> "No Convex client configured"]

\* An exception that leaves sync_with_cloud instead of being caught.
propagate(e) == [raised |-> e]

\* The result of the except clause (line 508).
failure(e) == [success |-> FALSE, error |-> e]

\* sync_with_cloud(force); query_ok, mutation_ok: the remote call does not raise.
sync_with_cloud(force, query_ok, mutation_ok) ==
    /\ last = Idle
    /\ IF ~convex_client THEN
           /\ last' = Returned("sync_with_cloud", <<force>>, not_configured, <<>>, <<>>)
           /\ UNCHANGED <<now, convex_client, cache, file, remote, reconciled, api, other_cache>>
       ELSE
           LET db0 == get_local_metadata_db(cache, file, now)
               local_metadata == LocalMetadata(db0.meta)
           IN IF recent_sync(local_metadata, force, now) THEN
                  /\ cache' = Some(db0)
                  /\ last' = Returned("sync_with_cloud", <<force>>,
                                      [success |-> TRUE, skipped |-> TRUE,
                                       reason |-> "Recent sync",
                                       last_sync |-> local_metadata.cloud_update_time],
                                      <<>>, <<>>)
                  /\ UNCHANGED <<now, convex_client, file, remote, reconciled, api, other_cache>>
              ELSE IF ~query_ok THEN
                  /\ cache' = Some(db0)
                  /\ last' = Returned("sync_with_cloud", <<force>>, failure("getAll failed"),
                                      <<Raised("lifelogs:getAll")>>, <<>>)
                  /\ UNCHANGED <<now, convex_client, file, remote, reconciled, api, other_cache>>
              ELSE
                  LET cloud_logs == getAll(remote)
                      local_count_before == Cardinality(keys(db0.lifelogs))
                      \* db["lifelogs"] is the cached mapping itself: the loop fills it in place
                      db1 == [db0 EXCEPT !.lifelogs = add_cloud_logs(@, cloud_logs)]
                      added_to_local == count_added(db0.lifelogs, cloud_logs)
                      upload == missing_logs(db1.lifelogs, cloud_logs)
                      db2 == sync_stamp(db1, now)
                  IN IF upload # <<>> /\ ~mutation_ok THEN
                         /\ cache' = Some(db1)
                         /\ last' = Returned("sync_with_cloud", <<force>>,
                                             failure("batchAdd failed"),
                                             <<Ok("lifelogs:getAll"), Raised("lifelogs:batchAdd")>>, <<>>)
                         /\ UNCHANGED <<now, convex_client, file, remote, reconciled, api, other_cache>>
                     ELSE
                         /\ cache' = Some(db2)
                         /\ file' = json_dump(db2)
                         /\ remote' = batchAdd(remote, upload)
                         /\ reconciled' = Some(now)
                         /\ last' = Returned("sync_with_cloud", <<force>>,
                                             [success |-> TRUE,
                                              cloud_count |-> Len(cloud_logs),
                                              local_count_before |-> local_count_before,
                                              added_to_local |-> added_to_local,
                                              added_to_cloud |-> Len(upload),
                                              local_count_after |-> Cardinality(keys(db2.lifelogs))],
                                             IF upload # <<>>
                                             THEN <<Ok("lifelogs:getAll"), Ok("lifelogs:batchAdd")>>
                                             ELSE <<Ok("lifelogs:getAll")>>,
                                             upload)
                         /\ UNCHANGED <<now, convex_client, api, other_cache>>

\* Whether a remote call raises is the remote's choice, where a call can be made.
Outcomes(called) == IF called THEN BOOLEAN ELSE {TRUE}

\* --------------------------------------------------------------- needs_sync

\* Line 532: source_time > cloud_time.
source_after(source_time, cloud_time) == source_time > cloud_time

\* Lines 523-535: what needs_sync answers from the metadata.  A time that is not a
\* string makes fromisoformat raise TypeError, which the except answers with True.
sync_needed(local_metadata) ==
    IF local_metadata.cloud_update_time = None THEN TRUE
    ELSE IF local_metadata.source_update_time = None THEN TRUE
    ELSE source_after(fromisoformat(local_metadata.source_update_time[1]),
                      fromisoformat(local_metadata.cloud_update_time[1]))

\* needs_sync(), asked before the caller moves on from the call that has returned:
\* `after` is that call.
needs_sync ==
    /\ last.op # "needs_sync"
    /\ IF ~convex_client THEN
           /\ last' = Returned("needs_sync", <<>>, Return(FALSE), <<>>, <<>>)
                      @@ [after |-> last]
           /\ UNCHANGED <<now, convex_client, cache, file, remote, reconciled, api, other_cache>>
       ELSE
           LET db == get_local_metadata_db(cache, file, now)
           IN /\ cache' = Some(db)
              /\ last' = Returned("needs_sync", <<>>,
                                  Return(sync_needed(LocalMetadata(db.meta))), <<>>, <<>>)
                         @@ [after |-> last]
              /\ UNCHANGED <<now, convex_client, file, remote, reconciled, api, other_cache>>

\* ---------------------------------------------------------- load_database

\* load_database(), called by the manager's user.
LoadDatabase ==
    /\ last = Idle
    /\ LET db == load_database(cache, file, now)
       IN IF "raised" \in DOMAIN db THEN
              /\ last' = Returned("load_database", <<>>, db, <<>>, <<>>)
              /\ UNCHANGED <<now, convex_client, cache, file, remote, reconciled, api, other_cache>>
          ELSE
              /\ cache' = Some(db)
              /\ last' = Returned("load_database", <<>>, Return(db), <<>>, <<>>)
              /\ UNCHANGED <<now, convex_client, file, remote, reconciled, api, other_cache>>

\* ------------------------------------------------------- is_api_call_needed

\* data_age_exceeds that also takes an age equal to the threshold for stale.
data_age_reaches(data_age, freshness_threshold_minutes) ==
    data_age >= freshness_threshold_minutes

\* Line 252: data_age > timedelta(minutes=freshness_threshold_minutes).
data_age_exceeds(data_age, freshness_threshold_minutes) ==
    data_age > freshness_threshold_minutes

\* on_parse_error that takes the data for fresh.
on_parse_error_fresh == FALSE

\* Lines 253-255: the answer when the stored time does not parse, or parses to a
\* datetime that cannot be subtracted from the current one.
on_parse_error == TRUE

\* is_api_call_needed, lines 235-255, on the loaded document.
api_call_needed(db, freshness_threshold_minutes, t) ==
    IF keys(db.lifelogs) = {} THEN TRUE
    ELSE LET last_updated == IF "source_update_time" \in DOMAIN db.meta
                             THEN db.meta.source_update_time ELSE None
         IN IF last_updated = None THEN TRUE
            ELSE IF ~parses(last_updated[1]) \/ aware(last_updated[1]) THEN on_parse_error
            ELSE data_age_exceeds(t - fromisoformat(last_updated[1]),
                                  freshness_threshold_minutes)

\* is_api_call_needed(freshness_threshold_minutes)
is_api_call_needed(freshness_threshold_minutes) ==
    /\ last = Idle
    /\ LET db == load_database(cache, file, now)
       IN IF "raised" \in DOMAIN db THEN
              /\ last' = Returned("is_api_call_needed", <<freshness_threshold_minutes>>,
                                  db, <<>>, <<>>)
              /\ UNCHANGED <<now, convex_client, cache, file, remote, reconciled, api, other_cache>>
          ELSE
              /\ cache' = Some(db)
              /\ last' = Returned("is_api_call_needed", <<freshness_threshold_minutes>>,
                                  Return(api_call_needed(db, freshness_threshold_minutes, now)),
                                  <<>>, <<>>)
              /\ UNCHANGED <<now, convex_client, file, remote, reconciled, api, other_cache>>

\* ------------------------------------------------------------- get_lifelogs

\* query("lifelogs:get", {limit, start_date, end_date}): the lists the remote store
\* can answer with, records of its own.
get(r) == {ListOf(S) : S \in SUBSET {r[k] : k \in keys(r)}}

\* The sort key of lines 176 and 212: x.timestamp if x.timestamp else 0.
sort_key(x) == IF x.timestamp # None /\ x.timestamp[1] # 0 THEN x.timestamp[1] ELSE 0

\* x placed in the sorted list s behind every element it need not precede.
RECURSIVE insert_sorted(_, _, _)
insert_sorted(s, x, reverse) ==
    IF s = <<>> THEN <<x>>
    ELSE IF (IF reverse THEN sort_key(Head(s)) < sort_key(x)
                        ELSE sort_key(Head(s)) > sort_key(x))
         THEN <<x>> \o s
         ELSE <<Head(s)>> \o insert_sorted(Tail(s), x, reverse)

\* list.sort(key=sort_key, reverse=reverse): stable in both directions.
RECURSIVE sort(_, _)
sort(lifelogs, reverse) ==
    IF lifelogs = <<>> THEN <<>>
    ELSE insert_sorted(sort(SubSeq(lifelogs, 1, Len(lifelogs) - 1), reverse),
                       lifelogs[Len(lifelogs)], reverse)

\* str.lower() on the directions in play.
lower(direction) == IF direction = "DESC" THEN "desc" ELSE direction

\* in_range with both comparisons strict.
in_range_exclusive(log, start_date, end_date) ==
    /\ log.timestamp # None
    /\ LET log_dt == fromtimestamp(log.timestamp[1])
       IN /\ start_date # None =>
                (~aware(start_date[1]) /\ log_dt > fromisoformat(start_date[1]))
          /\ end_date # None =>
                (~aware(end_date[1]) /\ log_dt < fromisoformat(end_date[1]))

\* in_range that lets a record with no timestamp through.
in_range_untimed(log, start_date, end_date) ==
    log.timestamp # None =>
        LET log_dt == fromtimestamp(log.timestamp[1])
        IN /\ start_date # None =>
                 (~aware(start_date[1]) /\ ~(log_dt < fromisoformat(start_date[1])))
           /\ end_date # None =>
                 (~aware(end_date[1]) /\ ~(log_dt > fromisoformat(end_date[1])))

\* Lines 194-206: the record is appended to filtered_logs.  A record with no
\* timestamp is passed over; the comparison with a datetime that carries a UTC
\* offset raises TypeError inside the try, and the record is passed over.
in_range(log, start_date, end_date) ==
    /\ log.timestamp # None
    /\ LET log_dt == fromtimestamp(log.timestamp[1])
       IN /\ start_date # None =>
                (~aware(start_date[1]) /\ ~(log_dt < fromisoformat(start_date[1])))
          /\ end_date # None =>
                (~aware(end_date[1]) /\ ~(log_dt > fromisoformat(end_date[1])))

\* Lines 188-208: the date filter, the strings having parsed.
date_filter(lifelogs, start_date, end_date) ==
    IF start_date # None \/ end_date # None
    THEN SelectSeq(lifelogs, LAMBDA log : in_range(log, start_date, end_date))
    ELSE lifelogs

\* Lines 217-218.
local_limit(lifelogs, limit) ==
    IF limit # None /\ limit[1] > 0 THEN take(lifelogs, limit[1]) ELSE lifelogs

\* Lines 185-220: the list returned from the local store, whose values() are in `order`.
local_lifelogs(db, order, limit, direction, start_date, end_date) ==
    LET lifelogs == [i \in DOMAIN order |-> dict_to_lifelog(db.lifelogs[order[i]])]
        filtered == date_filter(lifelogs, start_date, end_date)
    IN local_limit(sort(filtered, lower(direction) = "desc"), limit)

\* Lines 174-179: the list returned from a non-empty remote answer.
convex_lifelogs(convex_logs, limit, direction) ==
    LET lifelogs == sort([i \in DOMAIN convex_logs |-> dict_to_lifelog(convex_logs[i])],
                         lower(direction) = "desc")
    IN IF limit # None /\ limit[1] # 0 THEN take(lifelogs, limit[1]) ELSE lifelogs

\* Lines 190-191: datetime.fromisoformat raises ValueError, outside any try.
date_error(start_date, end_date) ==
    \/ start_date # None /\ ~parses(start_date[1])
    \/ end_date # None /\ ~parses(end_date[1])

\* The ways get_lifelogs(limit, direction, start_date, end_date) can end: what it
\* returns or raises, the remote calls it made, and whether it loaded the store document.
get_lifelogs_outcomes(limit, direction, start_date, end_date) ==
    LET db == load_database(cache, file, now)
        local(calls) ==
            IF "raised" \in DOMAIN db THEN {[result |-> db, calls |-> calls, loaded |-> FALSE]}
            ELSE IF date_error(start_date, end_date)
            THEN {[result |-> Raise("ValueError"), calls |-> calls, loaded |-> TRUE]}
            ELSE {[result |-> Return(local_lifelogs(db, order, limit, direction,
                                                    start_date, end_date)),
                   calls |-> calls, loaded |-> TRUE] : order \in Orders(keys(db.lifelogs))}
        answered(convex_logs) ==
            IF convex_logs # <<>>
            THEN {[result |-> Return(convex_lifelogs(convex_logs, limit, direction)),
                   calls |-> <<Answered("lifelogs:get", convex_logs)>>, loaded |-> FALSE]}
            ELSE local(<<Answered("lifelogs:get", convex_logs)>>)
    IN IF ~convex_client THEN local(<<>>)
       ELSE local(<<Raised("lifelogs:get")>>)
            \cup UNION {answered(convex_logs) : convex_logs \in get(remote)}

\* get_lifelogs(limit, direction, start_date, end_date)
get_lifelogs(limit, direction, start_date, end_date) ==
    /\ last = Idle
    /\ \E outcome \in get_lifelogs_outcomes(limit, direction, start_date, end_date) :
          /\ cache' = IF outcome.loaded THEN Some(load_database(cache, file, now)) ELSE cache
          /\ last' = Returned("get_lifelogs", <<limit, direction, start_date, end_date>>,
                              outcome.result, outcome.calls, <<>>)
    /\ UNCHANGED <<now, convex_client, file, remote, reconciled, api, other_cache>>

\* ------------------------------------------------- get_most_recent_timestamp

\* Lines 265-267: the timestamp of the first record of the list, None for no record.
first_timestamp(lifelogs) ==
    IF lifelogs # <<>> THEN lifelogs[1].timestamp ELSE None

\* get_most_recent_timestamp(): get_lifelogs(limit=1, direction="desc"), then the
\* timestamp of what it returned.
get_most_recent_timestamp ==
    /\ last = Idle
    /\ \E outcome \in get_lifelogs_outcomes(Some(1), "desc", None, None) :
          /\ cache' = IF outcome.loaded THEN Some(load_database(cache, file, now)) ELSE cache
          /\ last' = Returned("get_most_recent_timestamp", <<>>,
                              IF "raised" \in DOMAIN outcome.result THEN outcome.result
                              ELSE Return(first_timestamp(outcome.result.value)),
                              outcome.calls, <<>>)
    /\ UNCHANGED <<now, convex_client, file, remote, reconciled, api, other_cache>>

\* ------------------------------------------- a second manager on the same file

\* The state a call of the second manager is made in: its own cache and the store
\* document as its load_database returns it.
OtherPre == [db |-> load_database(other_cache, file, now), file |-> file, remote |-> remote,
             reconciled |-> reconciled, cache |-> other_cache]

\* A call of the second manager that has returned.
OtherReturned(op, args, result, calls, sent) ==
    [op |-> op, args |-> args, result |-> result, calls |-> calls, sent |-> sent,
     pre |-> OtherPre]

\* load_database() of a second LifelogDataManager built on the same db_file, with a
\* cache of its own (lines 32, 100-102).
OtherLoadDatabase ==
    /\ last = Idle
    /\ LET db == load_database(other_cache, file, now)
       IN IF "raised" \in DOMAIN db THEN
              /\ last' = OtherReturned("other.load_database", <<>>, db, <<>>, <<>>)
              /\ UNCHANGED <<now, convex_client, cache, file, remote, reconciled, api, other_cache>>
          ELSE
              /\ other_cache' = Some(db)
              /\ last' = OtherReturned("other.load_database", <<>>, Return(db), <<>>, <<>>)
              /\ UNCHANGED <<now, convex_client, cache, file, remote, reconciled, api>>

\* save_lifelogs(lifelogs) of the second manager: the same code, run on its cache.
OtherSaveLifelogs(lifelogs, mutation_ok) ==
    /\ last = Idle
    /\ IF not_lifelogs(lifelogs) THEN
           /\ last' = OtherReturned("other.save_lifelogs", lifelogs, "db_file", <<>>, <<>>)
           /\ UNCHANGED <<now, convex_client, cache, file, remote, reconciled, api, other_cache>>
       ELSE
           LET db0 == load_database(other_cache, file, now)
               db1 == save_local(db0, lifelogs, now)
               lifelog_dicts == [i \in DOMAIN lifelogs |-> lifelog_to_dict(lifelogs[i])]
               db2 == save_pushed(db1, now)
           IN IF ~convex_client THEN
                  /\ other_cache' = Some(db1)
                  /\ file' = json_dump(db1)
                  /\ last' = OtherReturned("other.save_lifelogs", lifelogs, "db_file", <<>>, <<>>)
                  /\ UNCHANGED <<now, convex_client, cache, remote, reconciled, api>>
              ELSE IF mutation_ok THEN
                  /\ other_cache' = Some(db2)
                  /\ file' = json_dump(db2)
                  /\ remote' = batchAdd(remote, lifelog_dicts)
                  /\ last' = OtherReturned("other.save_lifelogs", lifelogs, "db_file",
                                           <<Ok("lifelogs:batchAdd")>>, lifelog_dicts)
                  /\ UNCHANGED <<now, convex_client, cache, reconciled, api>>
              ELSE
                  /\ other_cache' = Some(db1)
                  /\ file' = json_dump(db1)
                  /\ last' = OtherReturned("other.save_lifelogs", lifelogs, "db_file",
                                           <<Raised("lifelogs:batchAdd")>>, <<>>)
                  /\ UNCHANGED <<now, convex_client, cache, remote, reconciled, api>>

\* ------------------------------------------------- the API client's get_lifelogs

\* The cursors the API hands out; the empty string is one a response can carry.
Cursors == {"", "c1", "c2"}

\* The records of the source are numbered in the order it delivers them: the batch
\* of the given length that follows the delivered records.
Batch(delivered, length) == [i \in 1..length |-> delivered + i]

\* The responses to a request made after the given number of delivered records: an
\* HTTP error, or a batch with or without a nextCursor.
Responses(delivered) ==
    {[ok |-> FALSE, lifelogs |-> <<>>, nextCursor |-> None]}
    \cup {[ok |-> TRUE, lifelogs |-> Batch(delivered, length), nextCursor |-> next_cursor] :
            length \in 0..MaxBatchSize,
            next_cursor \in {None} \cup {Some(c) : c \in Cursors}}

\* min(batch_size, limit)
min(a, b) == IF a < b THEN a ELSE b

\* Python's truth value of an Optional[str]: None and "" are false.
truthy(cursor) == cursor # None /\ cursor # Some("")

\* The result returned without truncation.
untruncated(all_lifelogs, limit) == all_lifelogs

\* Line 84: all_lifelogs[:limit]
truncated(all_lifelogs, limit) == take(all_lifelogs, limit[1])

\* Line 83: the limit is reached.
limit_reached(limit, all_lifelogs) == limit # None /\ Len(all_lifelogs) >= limit[1]

\* The loop that ends only when no cursor is returned.
done_without_cursor(next_cursor, lifelogs, batch_size) == ~truthy(next_cursor)

\* Line 90: no next cursor, or fewer results than requested.
done(next_cursor, lifelogs, batch_size) ==
    ~truthy(next_cursor) \/ Len(lifelogs) < batch_size

\* Lines 44-50 (src/examples/_client.py 59-65): get_lifelogs is entered.
\* LifelogAPIClient.get_lifelogs starts with cursor None; the function of
\* src/examples/_client.py takes the initial cursor as an argument.
ApiCall(limit, batch_size, cursor) ==
    /\ api = NoApiCall
    /\ api' = [pc |-> "request",
               limit |-> limit,
               batch_size |-> IF limit # None THEN min(batch_size, limit[1]) ELSE batch_size,
               all_lifelogs |-> <<>>,
               cursor |-> cursor,
               requests |-> <<>>,
               responses |-> <<>>]
    /\ UNCHANGED <<now, convex_client, cache, file, remote, last, reconciled, other_cache>>

\* Lines 52-95 (src/examples/_client.py 67-115): one turn of the loop, a request and
\* the handling of its response.
ApiRequest(response) ==
    /\ api.pc = "request"
    /\ Len(api.requests) < MaxRequests
    /\ LET params == [limit |-> api.batch_size,
                      cursor |-> IF truthy(api.cursor) THEN api.cursor ELSE None]
           all_lifelogs == api.all_lifelogs \o response.lifelogs
           sent == [api EXCEPT !.requests = Append(@, params),
                               !.responses = Append(@, response)]
       IN api' =
             IF ~response.ok
             THEN [sent EXCEPT !.pc = "raised"]
             ELSE IF limit_reached(api.limit, all_lifelogs)
             THEN [pc |-> "returned", result |-> truncated(all_lifelogs, api.limit)]
                  @@ [sent EXCEPT !.all_lifelogs = all_lifelogs]
             ELSE IF done(response.nextCursor, response.lifelogs, api.batch_size)
             THEN [pc |-> "returned", result |-> all_lifelogs]
                  @@ [sent EXCEPT !.all_lifelogs = all_lifelogs]
             ELSE [sent EXCEPT !.all_lifelogs = all_lifelogs,
                               !.cursor = response.nextCursor]
    /\ UNCHANGED <<now, convex_client, cache, file, remote, last, reconciled, other_cache>>

\* The caller goes on after the call has returned or raised.
ApiContinue ==
    /\ api.pc \in {"returned", "raised"}
    /\ api' = NoApiCall
    /\ UNCHANGED <<now, convex_client, cache, file, remote, last, reconciled, other_cache>>

\* ------------------------------------------------------------ specification

\* The steps with the callers' and other clients' records drawn from L and the clock
\* running to max.
NextOver(L, max) ==
    \/ Tick(max)
    \/ RemoteAdd(L)
    \/ Continue
    \/ \E lifelogs \in Batches(L) :
          \E mutation_ok \in Outcomes(convex_client /\ lifelogs # <<>>) :
             save_lifelogs(lifelogs, mutation_ok)
    \/ get_local_metadata
    \/ \E update_source, update_cloud \in BOOLEAN :
          update_local_metadata(update_source, update_cloud)
    \/ \E force \in BOOLEAN :
          \E query_ok, mutation_ok \in Outcomes(convex_client) :
             sync_with_cloud(force, query_ok, mutation_ok)

Next == NextOver(Lifelogs, MaxTime)

Spec == Init /\ [][Next]_vars

NextGrace == NextOver(GraceLifelogs, MaxGraceTime)

SpecGrace == Init /\ [][NextGrace]_vars

\* The steps of SpecGrace on the short clock, and needs_sync asked after any of them.
NextSync ==
    \/ NextOver(GraceLifelogs, MaxTime)
    \/ needs_sync

SpecSync == Init /\ [][NextSync]_vars

\* A store file holding the records S, written with the local sync time
\* source_update_time by an earlier run that never reached the remote store.
StoreFile(S, source_update_time) ==
    json_dump([lifelogs |-> upsert_all(EmptyDict, ListOf(S)),
               meta |-> [source_update_time |-> source_update_time,
                         cloud_update_time |-> None,
                         total_entries |-> Cardinality(S),
                         ids |-> {l.id : l \in S}]])

\* The local sync times a store file can carry: written up to MaxAge minutes before
\* the start, null, no date at all, and a date with a UTC offset.
SourceTimes ==
    {Some(isoformat(0 - a)) : a \in 0..MaxAge}
    \cup {None, Some([text |-> "garbage"]), Some([iso |-> 0, offset |-> 0])}

\* The files the read operations start from.
ReadFiles ==
    { [kind |-> "missing"], [kind |-> "corrupt"], [kind |-> "undecodable"],
      json_dump(EmptyDict),
      json_dump([lifelogs |-> upsert_all(EmptyDict, <<Lifelog("N", "n", <<>>, None)>>)]) }
    \cup {StoreFile(S, Some(isoformat(0))) :
             S \in {T \in SUBSET ReadLifelogs : Cardinality(T) <= MaxStored}}
    \cup {StoreFile({Lifelog("R", "r", <<>>, Some(1001))}, t) : t \in SourceTimes}

InitRead ==
    /\ now = 0
    /\ convex_client \in BOOLEAN
    /\ cache = None
    /\ file \in ReadFiles
    /\ remote \in (IF convex_client
                   THEN {EmptyDict,
                         batchAdd(EmptyDict, <<lifelog_to_dict(Lifelog("P", "p", <<>>, Some(999)))>>)}
                   ELSE {EmptyDict})
    /\ last = Idle
    /\ reconciled = None
    /\ api = NoApiCall
    /\ other_cache = None

\* The operations that read the store, on the files a manager can find.
NextRead ==
    \/ Continue
    \/ LoadDatabase
    \/ \E freshness_threshold_minutes \in 1..MaxThreshold :
          is_api_call_needed(freshness_threshold_minutes)
    \/ \E limit \in Limits, direction \in Directions, start_date, end_date \in Dates :
          get_lifelogs(limit, direction, start_date, end_date)
    \/ get_most_recent_timestamp

SpecRead == InitRead /\ [][NextRead]_vars

\* lifelog_to_dict(lifelog), called on its own.
LifelogToDict(lifelog) ==
    /\ last = Idle
    /\ last' = Returned("lifelog_to_dict", <<lifelog>>, Return(lifelog_to_dict(lifelog)),
                        <<>>, <<>>)
    /\ UNCHANGED <<now, convex_client, cache, file, remote, reconciled, api, other_cache>>

\* dict_to_lifelog(data), called on the mapping lifelog_to_dict has just returned.
DictToLifelog ==
    /\ last.op = "lifelog_to_dict"
    /\ last' = Returned("dict_to_lifelog", <<last.result.value>>,
                        Return(dict_to_lifelog(last.result.value)), <<>>, <<>>)
    /\ UNCHANGED <<now, convex_client, cache, file, remote, reconciled, api, other_cache>>

InitSchema ==
    /\ now = 0
    /\ convex_client = FALSE
    /\ cache = None
    /\ file = [kind |-> "missing"]
    /\ remote = EmptyDict
    /\ last = Idle
    /\ reconciled = None
    /\ api = NoApiCall
    /\ other_cache = None

\* The conversions of schemas.py, applied to the records of SchemaLifelogs.
NextSchema ==
    \/ \E lifelog \in SchemaLifelogs : LifelogToDict(lifelog)
    \/ DictToLifelog
    \/ Continue

SpecSchema == InitSchema /\ [][NextSchema]_vars

InitRace ==
    /\ now = 0
    /\ convex_client \in BOOLEAN
    /\ cache = None
    /\ file \in { [kind |-> "missing"],
                  json_dump([lifelogs |-> upsert_all(EmptyDict, <<Lifelog("A", "a", <<>>, Some(1000))>>),
                             meta |-> [source_update_time |-> Some(isoformat(0)),
                                       cloud_update_time |-> None,
                                       total_entries |-> 1,
                                       ids |-> {"A"}]]) }
    /\ remote = EmptyDict
    /\ last = Idle
    /\ reconciled = None
    /\ api = NoApiCall
    /\ other_cache = None

\* Two managers, each with its own cache, load and save on the same file; no lock
\* orders them, and each call runs to its end before the next begins.
NextRace ==
    \/ Continue
    \/ LoadDatabase
    \/ OtherLoadDatabase
    \/ \E lifelogs \in Batches(Lifelogs) :
          \E mutation_ok \in Outcomes(convex_client /\ lifelogs # <<>>) :
             save_lifelogs(lifelogs, mutation_ok)
    \/ \E lifelogs \in Batches(Lifelogs) :
          \E mutation_ok \in Outcomes(convex_client /\ lifelogs # <<>>) :
             OtherSaveLifelogs(lifelogs, mutation_ok)

SpecRace == InitRace /\ [][NextRace]_vars

\* The limits get_lifelogs of the API client is called with.
ApiLimits == {None} \cup {Some(n) : n \in 0..MaxApiLimit}

InitApi ==
    /\ now = 0
    /\ convex_client = FALSE
    /\ cache = None
    /\ file = [kind |-> "missing"]
    /\ remote = EmptyDict
    /\ last = Idle
    /\ reconciled = None
    /\ api = NoApiCall
    /\ other_cache = None

\* The API client's get_lifelogs against a source that answers as it likes.
NextApi ==
    \/ \E limit \in ApiLimits, batch_size \in 1..MaxBatchSize, cursor \in {None, Some("c1")} :
          ApiCall(limit, batch_size, cursor)
    \/ \E response \in (IF api.pc = "request" THEN Responses(Len(api.all_lifelogs)) ELSE {}) :
          ApiRequest(response)
    \/ ApiContinue

SpecApi == InitApi /\ [][NextApi]_vars

\* ------------------------------------------------------------------ claims

\* sync_with_cloud has returned from a pass that was not skipped and whose remote
\* calls succeeded.
SyncPassed ==
    /\ last.op = "sync_with_cloud"
    /\ "raised" \notin DOMAIN last.result
    /\ last.result.success
    /\ "skipped" \notin DOMAIN last.result

\* The ids of a list of records.
IdsOf(s) == {s[i].id : i \in DOMAIN s}

\* C1: a sync_with_cloud pass that is not skipped and whose remote calls succeed
\* leaves the local key set equal to L \cup R and hands batchAdd exactly the local
\* records whose keys are in L \ R (no batchAdd call when L \ R is empty).
C1_SyncUnionAndUpload ==
    SyncPassed =>
        LET L == keys(last.pre.db.lifelogs)
            R == keys(last.pre.remote)
        IN /\ cache # None
           /\ keys(cache[1].lifelogs) = L \cup R
           /\ Elems(last.sent) = {last.pre.db.lifelogs[k] : k \in L \ R}
           /\ Len(last.sent) = Cardinality(L \ R)
           /\ (Ok("lifelogs:batchAdd") \in Elems(last.calls)) <=> (L \ R # {})

\* The pass of the example: local {A, B} against remote {B, C}.
C1_Witness ==
    /\ SyncPassed
    /\ keys(last.pre.db.lifelogs) = {"A", "B"}
    /\ keys(last.pre.remote) = {"B", "C"}
    /\ keys(cache[1].lifelogs) = {"A", "B", "C"}
    /\ IdsOf(last.sent) = {"A"}

\* sync_with_cloud has returned after a remote call raised.
SyncRemoteFailed ==
    /\ last.op = "sync_with_cloud"
    /\ \E i \in DOMAIN last.calls : ~last.calls[i].ok

\* C2: when getAll or batchAdd fails during sync_with_cloud, the in-memory document
\* (lifelogs and meta) and the file are what they were before the call.
C2_FailureLeavesLocalState ==
    SyncRemoteFailed => (Doc = last.pre.db /\ file = last.pre.file)

\* C3: a failure of a remote call during sync_with_cloud does not leave the call as an
\* exception: the call returns a result with success false and a reason.
C3_FailureIsReturned ==
    SyncRemoteFailed =>
        /\ "raised" \notin DOMAIN last.result
        /\ DOMAIN last.result = {"success", "error"}
        /\ last.result.success = FALSE

\* getAll succeeded and batchAdd raised.
C3_Witness ==
    /\ last.op = "sync_with_cloud"
    /\ last.calls = <<Ok("lifelogs:getAll"), Raised("lifelogs:batchAdd")>>
    /\ last.result.success = FALSE

\* C4: no operation removes a record id from the lifelogs mapping: over every step
\* the key set of the store document only grows.
C4_KeysOnlyGrow ==
    [][keys(Doc.lifelogs) \subseteq keys(Doc'.lifelogs)]_vars

\* A pass against a remote store that lacks a record the local store holds, and that
\* holds one the local store lacks.
C4_Witness ==
    /\ SyncPassed
    /\ keys(last.pre.db.lifelogs) \ keys(last.pre.remote) # {}
    /\ keys(last.pre.remote) \ keys(last.pre.db.lifelogs) # {}
    /\ keys(last.pre.db.lifelogs) \subseteq keys(Doc.lifelogs)

\* C5: for every id present both locally and in the remote record set,
\* sync_with_cloud leaves the local record unchanged and does not upload it.
C5_SharedIdsUntouched ==
    last.op = "sync_with_cloud" =>
        \A k \in keys(last.pre.db.lifelogs) \cap keys(last.pre.remote) :
            /\ k \in keys(Doc.lifelogs)
            /\ Doc.lifelogs[k] = last.pre.db.lifelogs[k]
            /\ k \notin IdsOf(last.sent)

\* A pass over an id whose local and remote records differ.
C5_Witness ==
    /\ SyncPassed
    /\ \E k \in keys(last.pre.db.lifelogs) \cap keys(last.pre.remote) :
          /\ last.pre.db.lifelogs[k] # last.pre.remote[k]
          /\ Doc.lifelogs[k] = last.pre.db.lifelogs[k]

\* sync_with_cloud has returned the result of a skipped pass.
SyncSkipped ==
    /\ last.op = "sync_with_cloud"
    /\ "skipped" \in DOMAIN last.result
    /\ last.result.skipped
    /\ last.result.success

\* A non-forced sync_with_cloud has returned, called less than five minutes after a
\* reconciliation completed.
SyncWithinGrace ==
    /\ last.op = "sync_with_cloud"
    /\ last.args = <<FALSE>>
    /\ last.pre.reconciled # None
    /\ now - last.pre.reconciled[1] < SYNC_GRACE_MINUTES

\* C6: a non-forced sync_with_cloud called less than five minutes after a
\* reconciliation completed makes no remote call, leaves the store document, the file
\* and the remote store unchanged and returns a skipped result.
C6_RecentSyncIsSkipped ==
    SyncWithinGrace =>
        /\ SyncSkipped
        /\ last.calls = <<>>
        /\ last.sent = <<>>
        /\ Doc = last.pre.db
        /\ file = last.pre.file
        /\ remote = last.pre.remote

\* A skipped call in the last minute of the window, the local store having changed
\* since the reconciliation.
C6_Witness ==
    /\ SyncWithinGrace
    /\ SyncSkipped
    /\ now - last.pre.reconciled[1] = SYNC_GRACE_MINUTES - 1
    /\ keys(Doc.lifelogs) # keys(remote)

\* sync_with_cloud has returned from a manager with no remote client.
SyncNotConfigured == last.op = "sync_with_cloud" /\ ~convex_client

\* A result that reports a failure.
IsFailure(result) == "success" \in DOMAIN result /\ result.success = FALSE

\* C7 as stated: with no remote client sync_with_cloud changes neither the document
\* nor the file and returns a result that is not a failure result.
C7_NotConfiguredIsNotFailure ==
    SyncNotConfigured =>
        /\ Doc = last.pre.db
        /\ file = last.pre.file
        /\ ~IsFailure(last.result)

\* C7 as amended: with no remote client sync_with_cloud makes no remote call, changes
\* neither the document nor the file, and returns success false with the error
\* "No Convex client configured": a result of the same shape as the one returned
\* for a failed remote call.
C7_NotConfiguredIsNoOp ==
    SyncNotConfigured =>
        /\ Doc = last.pre.db
        /\ file = last.pre.file
        /\ last.calls = <<>>
        /\ last.result = [success |-> FALSE, error |-> "No Convex client configured"]
        /\ IsFailure(last.result)

\* The call on a store that holds records.
C7_Witness ==
    /\ SyncNotConfigured
    /\ keys(Doc.lifelogs) # {}
    /\ last.result.success = FALSE

\* C8: after a sync_with_cloud pass that was not skipped and whose remote calls
\* succeeded, the local and the cloud sync time are both the time of the pass and the
\* file holds the document that carries them.
C8_SyncStampsBothTimes ==
    SyncPassed =>
        /\ cache # None
        /\ cache[1].meta.source_update_time = Some(isoformat(now))
        /\ cache[1].meta.cloud_update_time = Some(isoformat(now))
        /\ cache[1].meta.source_update_time = cache[1].meta.cloud_update_time
        /\ file = json_dump(cache[1])

\* A pass that moved both times, which differed before it.
C8_Witness ==
    /\ SyncPassed
    /\ last.pre.db.meta.source_update_time # Some(isoformat(now))
    /\ last.pre.db.meta.cloud_update_time # None
    /\ last.pre.db.meta.cloud_update_time # last.pre.db.meta.source_update_time
    /\ cache[1].meta.cloud_update_time = Some(isoformat(now))

\* The derived metadata of a document agrees with its lifelogs.
Consistent(db) ==
    /\ db.meta.total_entries = Cardinality(keys(db.lifelogs))
    /\ db.meta.ids = keys(db.lifelogs)

\* C9: after any save_lifelogs call the metadata record count is the number of
\* entries of lifelogs and the metadata ids are its keys, and so it is in every
\* document save_lifelogs, update_local_metadata or sync_with_cloud has written.
C9_DerivedMetadata ==
    /\ last.op = "save_lifelogs" => Consistent(Doc)
    /\ (last.op \in {"save_lifelogs", "update_local_metadata", "sync_with_cloud"}
          /\ file # last.pre.file) => Consistent(file.doc)

\* The last record of a list with id k.
LastOf(lifelogs, k) ==
    lifelogs[CHOOSE i \in DOMAIN lifelogs :
                /\ lifelogs[i].id = k
                /\ \A j \in DOMAIN lifelogs : lifelogs[j].id = k => j <= i]

\* save_lifelogs has returned from a call with a non-empty list.
Saved == last.op = "save_lifelogs" /\ last.args # <<>>

\* C10: save_lifelogs is an upsert by id: each saved id holds the wire form of the
\* last record given for it, every other entry is as before, saving only ids that
\* exist leaves the number of entries unchanged, and saving records that are already
\* stored leaves the mapping as it is.
C10_SaveIsUpsert ==
    Saved =>
        LET before == last.pre.db.lifelogs
            after == Doc.lifelogs
            saved == IdsOf(last.args)
        IN /\ keys(after) = keys(before) \cup saved
           /\ \A k \in saved : after[k] = lifelog_to_dict(LastOf(last.args, k))
           /\ \A k \in keys(before) \ saved : after[k] = before[k]
           /\ saved \subseteq keys(before) =>
                 Cardinality(keys(after)) = Cardinality(keys(before))
           /\ (\A k \in saved :
                   k \in keys(before) /\ before[k] = lifelog_to_dict(LastOf(last.args, k)))
                 => after = before

\* A save that replaced the stored record of an id by a different one.
C10_Witness ==
    /\ Saved
    /\ \E k \in IdsOf(last.args) :
          /\ k \in keys(last.pre.db.lifelogs)
          /\ last.pre.db.lifelogs[k] # lifelog_to_dict(LastOf(last.args, k))
          /\ Doc.lifelogs[k] = lifelog_to_dict(LastOf(last.args, k))
    /\ Cardinality(keys(Doc.lifelogs)) = Cardinality(keys(last.pre.db.lifelogs))

\* save_lifelogs has returned from a call with the empty list.
SavedNothing == last.op = "save_lifelogs" /\ last.args = <<>>

\* C11: save_lifelogs with an empty list is a no-op: the store document, lifelogs and
\* every metadata field, is unchanged, the file is not written and no remote call is made.
C11_EmptySaveIsNoOp ==
    SavedNothing =>
        /\ Doc = last.pre.db
        /\ file = last.pre.file
        /\ remote = last.pre.remote
        /\ last.calls = <<>>
        /\ last.sent = <<>>

\* The empty save on a manager with a remote client, a store that holds records and
\* a local sync time older than the call.
C11_Witness ==
    /\ SavedNothing
    /\ convex_client
    /\ keys(Doc.lifelogs) # {}
    /\ Doc.meta.source_update_time # Some(isoformat(now))
    /\ Doc = last.pre.db

\* is_api_call_needed has returned, having loaded a store document.
FreshnessAsked ==
    /\ last.op = "is_api_call_needed"
    /\ "raised" \notin DOMAIN last.pre.db

\* C12: is_api_call_needed(threshold) returns true for a store with no records, true
\* when no local sync time is recorded, and otherwise, the time being a date, true
\* exactly when now - local_sync_time > threshold minutes: due at threshold + 1
\* minutes, not due at threshold - 1 (nor at the threshold itself).
C12_FetchDueRule ==
    FreshnessAsked =>
        LET db == last.pre.db
            threshold == last.args[1]
            local_sync_time == db.meta.source_update_time
        IN /\ keys(db.lifelogs) = {} => last.result = Return(TRUE)
           /\ (keys(db.lifelogs) # {} /\ local_sync_time = None) => last.result = Return(TRUE)
           /\ ( /\ keys(db.lifelogs) # {}
                /\ local_sync_time # None
                /\ parses(local_sync_time[1])
                /\ ~aware(local_sync_time[1]) ) =>
                 LET age == now - local_sync_time[1].iso
                 IN /\ last.result = Return(age > threshold)
                    /\ age = threshold + 1 => last.result = Return(TRUE)
                    /\ age = threshold - 1 => last.result = Return(FALSE)

\* A store that holds a record and was synced threshold + 1 minutes ago is due.
C12_Witness ==
    /\ FreshnessAsked
    /\ keys(last.pre.db.lifelogs) # {}
    /\ last.pre.db.meta.source_update_time # None
    /\ parses(last.pre.db.meta.source_update_time[1])
    /\ ~aware(last.pre.db.meta.source_update_time[1])
    /\ now - last.pre.db.meta.source_update_time[1].iso = last.args[1] + 1
    /\ last.result = Return(TRUE)

\* C13: when the stored local sync time is no date (or is a date that cannot be
\* subtracted from the current time), is_api_call_needed returns true and does not
\* raise, whatever the threshold.
C13_UnparsedTimeIsDue ==
    FreshnessAsked =>
        LET local_sync_time == last.pre.db.meta.source_update_time
        IN (local_sync_time # None
               /\ (~parses(local_sync_time[1]) \/ aware(local_sync_time[1])))
              => last.result = Return(TRUE)

\* The call on a store that holds a record and whose local sync time is no date.
C13_Witness ==
    /\ FreshnessAsked
    /\ keys(last.pre.db.lifelogs) # {}
    /\ last.pre.db.meta.source_update_time # None
    /\ ~parses(last.pre.db.meta.source_update_time[1])
    /\ last.args[1] = MaxThreshold
    /\ last.result = Return(TRUE)

\* C14: load_database does not raise on a missing file or on a file that holds no
\* valid JSON: it returns an empty default document, with no lifelogs, record count 0,
\* no ids and no cloud sync time.
C14_LoadNeverRaises ==
    (last.op = "load_database" /\ last.pre.file.kind \in {"missing", "corrupt", "undecodable"}) =>
        /\ "value" \in DOMAIN last.result
        /\ keys(last.result.value.lifelogs) = {}
        /\ last.result.value.meta.total_entries = 0
        /\ last.result.value.meta.ids = {}
        /\ last.result.value.meta.cloud_update_time = None

\* The cache holds a document and the file holds that document, whole.
FileIsCache == cache # None /\ file.kind = "json" /\ file.doc = cache[1]

\* C15 as stated: after save_lifelogs with a non-empty list, update_local_metadata or
\* sync_with_cloud has returned, whether it succeeded or failed, the file holds the
\* full document and equals the cached document.
C15_FileIsCacheAfterMutation ==
    (Saved \/ last.op \in {"update_local_metadata", "sync_with_cloud"}) => FileIsCache

\* C15 as amended: the file holds the full cached document after save_lifelogs with a
\* non-empty list (whether or not its remote push failed), after
\* update_local_metadata, and after a sync_with_cloud pass that was not skipped and
\* whose remote calls succeeded; a sync_with_cloud call that is skipped, finds no
\* client or fails writes no file.
C15_FileIsCacheAfterWrite ==
    /\ (Saved \/ last.op = "update_local_metadata" \/ SyncPassed) => FileIsCache
    /\ (last.op = "sync_with_cloud" /\ ~SyncPassed) => file = last.pre.file

\* A save whose remote push failed has written the document it left in the cache.
C15_Witness ==
    /\ Saved
    /\ last.calls = <<Raised("lifelogs:batchAdd")>>
    /\ file # last.pre.file
    /\ FileIsCache

\* save_lifelogs has returned from a call whose remote batchAdd raised.
SavePushFailed ==
    /\ last.op = "save_lifelogs"
    /\ last.calls = <<Raised("lifelogs:batchAdd")>>

\* C16: when the remote batchAdd fails during save_lifelogs the call returns as
\* usual, the given records are in the document and the file, the local sync time is
\* the time of the call, and the cloud sync time and the remote store are as before.
C16_PushFailureIsContained ==
    SavePushFailed =>
        /\ last.result = "db_file"
        /\ \A k \in IdsOf(last.args) :
              /\ k \in keys(Doc.lifelogs)
              /\ Doc.lifelogs[k] = lifelog_to_dict(LastOf(last.args, k))
        /\ file.kind = "json"
        /\ file.doc = Doc
        /\ Doc.meta.source_update_time = Some(isoformat(now))
        /\ Doc.meta.cloud_update_time = last.pre.db.meta.cloud_update_time
        /\ remote = last.pre.remote

\* A failed push after an earlier one succeeded: the cloud sync time is kept, the
\* local one moves.
C16_Witness ==
    /\ SavePushFailed
    /\ last.pre.db.meta.cloud_update_time # None
    /\ last.pre.db.meta.source_update_time # Some(isoformat(now))
    /\ Doc.meta.cloud_update_time = last.pre.db.meta.cloud_update_time
    /\ Doc.meta.source_update_time = Some(isoformat(now))

\* get_lifelogs has returned after reading the local store: there is no remote
\* client, or the remote query raised or answered with no records.
LocalQuery ==
    /\ last.op = "get_lifelogs"
    /\ "raised" \notin DOMAIN last.pre.db
    /\ \A i \in DOMAIN last.calls : ~last.calls[i].ok \/ last.calls[i].answer = <<>>

\* The date strings of the call, both parsed by fromisoformat where given.
DatesParse ==
    /\ last.args[3] # None => parses(last.args[3][1])
    /\ last.args[4] # None => parses(last.args[4][1])

\* The ids of the stored records whose timestamp lies in the closed range of the
\* date strings of the call.
InClosedRange ==
    {k \in keys(last.pre.db.lifelogs) :
        LET timestamp == last.pre.db.lifelogs[k].timestamp
        IN /\ timestamp # None
           /\ last.args[3] # None => timestamp[1] >= last.args[3][1].iso
           /\ last.args[4] # None => timestamp[1] <= last.args[4][1].iso}

\* C17: the date filter of get_lifelogs on the local store is inclusive at both ends:
\* with a start_date or end_date and no limit, the records returned are those whose
\* timestamp is at or after start_date and at or before end_date, so one exactly at
\* a bound is returned and one a millisecond outside is not.
C17_DateFilterIsInclusive ==
    (LocalQuery /\ DatesParse /\ last.args[1] = None
         /\ (last.args[3] # None \/ last.args[4] # None)) =>
        /\ "value" \in DOMAIN last.result
        /\ IdsOf(last.result.value) = InClosedRange

\* C18: get_lifelogs on the local store leaves a record with no timestamp out of
\* every list it returns for a call with a start_date or an end_date, does not raise
\* when the dates given parse, and returns the record when no date and no limit is given.
C18_UntimedRecords ==
    LocalQuery =>
        /\ (last.args[3] # None \/ last.args[4] # None) =>
              /\ DatesParse => "value" \in DOMAIN last.result
              /\ "value" \in DOMAIN last.result =>
                    \A i \in DOMAIN last.result.value : last.result.value[i].timestamp # None
        /\ (last.args[3] = None /\ last.args[4] = None /\ last.args[1] = None) =>
              /\ "value" \in DOMAIN last.result
              /\ \A k \in keys(last.pre.db.lifelogs) :
                    last.pre.db.lifelogs[k].timestamp = None => k \in IdsOf(last.result.value)

\* A filtered call on a store that holds a record with no timestamp and one in range:
\* the list holds the second and not the first.
C18_Witness ==
    /\ LocalQuery
    /\ last.args[3] = Some([iso |-> 1000])
    /\ \E k \in keys(last.pre.db.lifelogs) : last.pre.db.lifelogs[k].timestamp = None
    /\ "value" \in DOMAIN last.result
    /\ last.result.value # <<>>
    /\ \A i \in DOMAIN last.result.value : last.result.value[i].timestamp # None

\* C19: a start_date or end_date that is no date does not make get_lifelogs raise:
\* the call returns a list of records.
C19_BadDateIsContained ==
    (last.op = "get_lifelogs" /\ "raised" \notin DOMAIN last.pre.db /\ ~DatesParse) =>
        "value" \in DOMAIN last.result

\* a comes no later than b in ascending order of timestamp, no timestamp being the
\* lowest value.
NotAfter(a, b) ==
    \/ a.timestamp = None
    \/ b.timestamp # None /\ a.timestamp[1] <= b.timestamp[1]

\* C20: the list get_lifelogs returns from the local store is ordered by timestamp,
\* ascending for 'asc' and descending for 'desc', a record with no timestamp counting
\* as lower than every timestamp.
C20_SortedUntimedLowest ==
    (LocalQuery /\ "value" \in DOMAIN last.result) =>
        \A i, j \in DOMAIN last.result.value :
            i < j =>
                /\ last.args[2] = "asc" => NotAfter(last.result.value[i], last.result.value[j])
                /\ last.args[2] = "desc" => NotAfter(last.result.value[j], last.result.value[i])

\* get_most_recent_timestamp has returned after reading the local store.
LocalRecent ==
    /\ last.op = "get_most_recent_timestamp"
    /\ "raised" \notin DOMAIN last.pre.db
    /\ \A i \in DOMAIN last.calls : ~last.calls[i].ok \/ last.calls[i].answer = <<>>

\* The timestamps of the records of the store the call was made on.
StoredTimestamps ==
    {last.pre.db.lifelogs[k].timestamp[1] :
        k \in {id \in keys(last.pre.db.lifelogs) : last.pre.db.lifelogs[id].timestamp # None}}

\* C21: get_most_recent_timestamp returns the largest timestamp among the records of
\* the store, and returns none exactly when the store holds no record.
C21_MostRecentTimestamp ==
    LocalRecent =>
        /\ "value" \in DOMAIN last.result
        /\ (last.result.value = None) <=> (keys(last.pre.db.lifelogs) = {})
        /\ last.result.value # None =>
              /\ last.result.value[1] \in StoredTimestamps
              /\ \A t \in StoredTimestamps : t <= last.result.value[1]

\* C22: for every Lifelog r, nested ContentItems, unset optional fields and the
\* default empty children included, dict_to_lifelog(lifelog_to_dict(r)) = r.
C22_RoundTrip ==
    last.op = "dict_to_lifelog" =>
        \A r \in SchemaLifelogs :
            lifelog_to_dict(r) = last.args[1] => last.result = Return(r)

\* The optional fields of a ContentItem and their keys in the wire form.
WireKey ==
    [start_time |-> "startTime", end_time |-> "endTime",
     start_offset_ms |-> "startOffsetMs", end_offset_ms |-> "endOffsetMs",
     speaker_name |-> "speakerName", speaker_identifier |-> "speakerIdentifier"]

\* The wire form of a ContentItem has no key for an optional field the item lacks,
\* nor for children it lacks or has none of.
RECURSIVE ItemOmitsAbsent(_, _)
ItemOmitsAbsent(item, data) ==
    /\ \A f \in DOMAIN WireKey : item[f] = None => WireKey[f] \notin DOMAIN data
    /\ (item.children = None \/ item.children = Some(<<>>)) => "children" \notin DOMAIN data
    /\ "children" \in DOMAIN data =>
          \A i \in DOMAIN data.children :
              ItemOmitsAbsent(item.children[1][i], data.children[i])

\* C23: the wire form lifelog_to_dict produces has no key for an optional field that
\* is absent on the object (the Lifelog's timestamp; a ContentItem's times, offsets,
\* children and speaker fields): none is emitted as null.
C23_AbsentFieldsOmitted ==
    last.op = "lifelog_to_dict" =>
        LET r == last.args[1]
            data == last.result.value
        IN /\ r.timestamp = None => "timestamp" \notin DOMAIN data
           /\ \A i \in DOMAIN r.contents : ItemOmitsAbsent(r.contents[i], data.contents[i])

\* Python's ''.join for lists: the batches of the responses, one after another.
RECURSIVE concat(_)
concat(responses) ==
    IF responses = <<>> THEN <<>>
    ELSE concat(SubSeq(responses, 1, Len(responses) - 1))
         \o responses[Len(responses)].lifelogs

\* C24: for every limit that is not None, the API client's get_lifelogs returns at
\* most limit records, exactly limit records when the batches received hold at
\* least limit records, and the result is the received batches in order, cut to
\* limit; no request asks for more than limit records.
C24_LimitTruncates ==
    (api.pc # "none" /\ api.limit # None) =>
        /\ \A i \in DOMAIN api.requests : api.requests[i].limit <= api.limit[1]
        /\ api.pc = "returned" =>
              /\ Len(api.result) <= api.limit[1]
              /\ Len(concat(api.responses)) >= api.limit[1] =>
                    Len(api.result) = api.limit[1]
              /\ api.result = take(concat(api.responses), api.limit[1])

\* A call that received more records than its limit has returned.
C24_Witness ==
    /\ api.pc = "returned"
    /\ api.limit = Some(3)
    /\ Len(api.requests) = 2
    /\ Len(concat(api.responses)) = 4
    /\ api.result = <<1, 2, 3>>

\* C25: the pagination loop makes a further request only when the previous response
\* carried a nextCursor and a full batch and the limit was not reached, and it passes
\* that cursor; so once a response is short or carries no nextCursor the call ends.
C25_FurtherRequestNeedsCursor ==
    api.pc # "none" =>
        /\ \A i \in DOMAIN api.requests :
              i > 1 =>
                 LET previous == api.responses[i - 1]
                 IN /\ previous.ok
                    /\ previous.nextCursor \notin {None, Some("")}
                    /\ Len(previous.lifelogs) >= api.batch_size
                    /\ api.limit # None =>
                          Len(concat(SubSeq(api.responses, 1, i - 1))) < api.limit[1]
                    /\ api.requests[i].cursor = previous.nextCursor
        /\ (api.pc = "request" /\ api.responses # <<>>) =>
              LET previous == api.responses[Len(api.responses)]
              IN /\ previous.nextCursor \notin {None, Some("")}
                 /\ Len(previous.lifelogs) >= api.batch_size

\* A call made three requests, each later one with the cursor of the response before
\* it, and returned on a short batch.
C25_Witness ==
    /\ api.pc = "returned"
    /\ Len(api.requests) = 3
    /\ api.requests[2].cursor = Some("c2")
    /\ api.requests[3].cursor = Some("c1")
    /\ api.responses[3].nextCursor = Some("c2")
    /\ Len(api.responses[3].lifelogs) < api.batch_size

\* Every entry of the mapping is stored under its record's own id.
KeyedById(logs) == \A k \in keys(logs) : logs[k].id = k

\* C26: every entry of the lifelogs mapping, in the cache and in the file, is stored
\* under a key equal to the record's own id; the ids of the records save_lifelogs was
\* given and of those sync_with_cloud pulled from the remote are keys as they came.
C26_KeyIsId ==
    /\ cache # None => KeyedById(cache[1].lifelogs)
    /\ file.kind = "json" => KeyedById(file.doc.lifelogs)
    /\ (last.op = "save_lifelogs" /\ last.args # <<>>) =>
          \A i \in DOMAIN last.args :
              /\ last.args[i].id \in keys(cache[1].lifelogs)
              /\ last.args[i].id \in keys(file.doc.lifelogs)
    /\ (last.op = "sync_with_cloud" /\ last.calls # <<>> /\ last.calls[1].ok) =>
          \A k \in keys(last.pre.remote) : k \in keys(cache[1].lifelogs)

\* A reconciliation pulled a record from the remote into a store that held a saved one.
C26_Witness ==
    /\ last.op = "sync_with_cloud"
    /\ "added_to_local" \in DOMAIN last.result
    /\ last.result.added_to_local > 0
    /\ last.pre.cache # None
    /\ keys(last.pre.cache[1].lifelogs) # {}
    /\ keys(file.doc.lifelogs) = keys(last.pre.cache[1].lifelogs) \cup keys(last.pre.remote)

\* A manager has returned from a save of a non-empty list, and the cache it ran on.
Wrote == last.op \in {"save_lifelogs", "other.save_lifelogs"} /\ last.args # <<>>

WriterCache == IF last.op = "save_lifelogs" THEN cache ELSE other_cache

\* C28: two managers write the same file with no lock and the last writer wins: after
\* a write the file holds exactly the writer's in-memory document, which is what its
\* cache held before with the saved records put in, so a record the other manager
\* persisted after the writer first loaded the file is absent from the file.
C28_LastWriterWins ==
    Wrote =>
        /\ file.kind = "json"
        /\ file.doc = WriterCache[1]
        /\ last.pre.cache # None =>
              keys(file.doc.lifelogs)
                 = keys(last.pre.cache[1].lifelogs) \cup {last.args[i].id : i \in DOMAIN last.args}

\* The first manager wrote after the second had persisted a record it never loaded:
\* the record was in the file before the write and is gone after it.
C28_Witness ==
    /\ last.op = "save_lifelogs"
    /\ last.args # <<>>
    /\ last.pre.cache # None
    /\ other_cache # None
    /\ last.pre.file.kind = "json"
    /\ last.pre.file.doc = other_cache[1]
    /\ \E k \in keys(last.pre.file.doc.lifelogs) : k \notin keys(file.doc.lifelogs)

\* A manager has returned from load_database, and the cache it ran on.
Loaded == last.op \in {"load_database", "other.load_database"}

LoaderCache == IF last.op = "load_database" THEN cache ELSE other_cache

\* C29: within one manager the file is read at most once: a load_database made with
\* the cache filled returns the cached document and leaves the cache as it was,
\* whatever the file holds by then.
C29_LoadReturnsCache ==
    (Loaded /\ last.pre.cache # None) =>
        /\ last.result = Return(last.pre.cache[1])
        /\ LoaderCache = last.pre.cache

\* A load returned the cached document after the other manager had changed the file.
C29_Witness ==
    /\ last.op = "load_database"
    /\ last.pre.cache # None
    /\ last.pre.file.kind = "json"
    /\ keys(last.pre.file.doc.lifelogs) # keys(last.pre.cache[1].lifelogs)
    /\ last.result = Return(last.pre.cache[1])

\* sync_with_cloud(force=True) has returned from a manager with a remote client.
SyncForced == last.op = "sync_with_cloud" /\ last.args = <<TRUE>> /\ convex_client

\* C30: with force=True and a remote client configured sync_with_cloud never returns
\* a skipped result: its first remote call is the query for the remote's full record
\* set, however recently the previous reconciliation completed.
C30_ForcedSyncQueries ==
    SyncForced =>
        /\ "skipped" \notin DOMAIN last.result
        /\ last.calls # <<>>
        /\ last.calls[1].fn = "lifelogs:getAll"

\* A forced call made in the minute a reconciliation completed went through and
\* reconciled again.
C30_Witness ==
    /\ SyncForced
    /\ last.pre.reconciled = Some(now)
    /\ last.pre.db.meta.cloud_update_time = Some(isoformat(now))
    /\ last.calls[1] = Ok("lifelogs:getAll")
    /\ last.result.success

\* C31: the statistics of a sync_with_cloud pass that succeeded and was not skipped
\* are exact: added_to_local is the number of remote ids that were not local before
\* the call, added_to_cloud the number of ids that were local and not remote,
\* local_count_after = local_count_before + added_to_local, and batchAdd is called
\* exactly when added_to_cloud > 0.
C31_SyncStatisticsExact ==
    SyncPassed =>
        LET L == keys(last.pre.db.lifelogs)
            R == keys(last.pre.remote)
        IN /\ last.result.added_to_local = Cardinality(R \ L)
           /\ last.result.added_to_cloud = Cardinality(L \ R)
           /\ last.result.local_count_before = Cardinality(L)
           /\ last.result.cloud_count = Cardinality(R)
           /\ last.result.local_count_after
                 = last.result.local_count_before + last.result.added_to_local
           /\ last.result.local_count_after = Cardinality(keys(Doc.lifelogs))
           /\ (\E i \in DOMAIN last.calls : last.calls[i].fn = "lifelogs:batchAdd")
                 <=> last.result.added_to_cloud > 0

\* A pass that moved records both ways and kept a shared one: local {A, B} against
\* remote {B, C} reports one added on each side.
C31_Witness ==
    /\ SyncPassed
    /\ keys(last.pre.db.lifelogs) = {"A", "B"}
    /\ keys(last.pre.remote) = {"B", "C"}
    /\ last.result.added_to_local = 1
    /\ last.result.added_to_cloud = 1
    /\ last.result.local_count_after = 3

\* The remote query of the call answered with records.
RemoteAnswered ==
    /\ last.calls # <<>>
    /\ last.calls[1].ok
    /\ last.calls[1].answer # <<>>

\* C32: with a remote client get_lifelogs asks the remote first.  A non-empty answer
\* is returned, its records ordered by timestamp and cut to limit; when the query
\* raises or answers with nothing the call returns records of the local store and
\* does not raise.
C32_RemoteFirstThenLocal ==
    (last.op = "get_lifelogs" /\ convex_client) =>
        /\ last.calls # <<>>
        /\ last.calls[1].fn = "lifelogs:get"
        /\ "value" \in DOMAIN last.result
        /\ RemoteAnswered =>
              /\ \A i \in DOMAIN last.result.value :
                    \E j \in DOMAIN last.calls[1].answer :
                        last.result.value[i] = dict_to_lifelog(last.calls[1].answer[j])
              /\ Len(last.result.value)
                    = IF last.args[1] # None /\ last.args[1][1] < Len(last.calls[1].answer)
                      THEN last.args[1][1] ELSE Len(last.calls[1].answer)
        /\ ~RemoteAnswered =>
              \A i \in DOMAIN last.result.value :
                  last.result.value[i].id \in keys(last.pre.db.lifelogs)

\* A forced sync_with_cloud has returned that was called with both sides as a
\* completed reconciliation leaves them: local and remote hold the same ids.
SyncRepeated ==
    /\ last.op = "sync_with_cloud"
    /\ last.args = <<TRUE>>
    /\ convex_client
    /\ last.pre.reconciled # None
    /\ keys(last.pre.db.lifelogs) = keys(last.pre.remote)

\* C33: reconciliation is idempotent.  A pass that succeeded leaves local and remote
\* with the same ids, and a forced sync_with_cloud called with the two sides so,
\* nothing having changed on either since, makes no batchAdd call, leaves the
\* lifelogs mapping and the remote as they were and, where it succeeds, reports
\* added_to_local = 0 and added_to_cloud = 0.
C33_SyncIsIdempotent ==
    /\ SyncPassed => keys(Doc.lifelogs) = keys(remote)
    /\ SyncRepeated =>
          /\ \A i \in DOMAIN last.calls : last.calls[i].fn # "lifelogs:batchAdd"
          /\ last.sent = <<>>
          /\ Doc.lifelogs = last.pre.db.lifelogs
          /\ remote = last.pre.remote
          /\ SyncPassed =>
                /\ last.result.added_to_local = 0
                /\ last.result.added_to_cloud = 0
                /\ last.result.local_count_after = last.result.local_count_before

\* A forced pass in the minute a reconciliation of two records completed found
\* nothing to move.
C33_Witness ==
    /\ SyncRepeated
    /\ SyncPassed
    /\ last.pre.reconciled = Some(now)
    /\ last.pre.db.meta.cloud_update_time = Some(isoformat(now))
    /\ Cardinality(keys(last.pre.db.lifelogs)) >= 2
    /\ last.result.added_to_local = 0
    /\ last.result.added_to_cloud = 0

\* needs_sync has returned from a manager with a remote client, asked right after
\* the call `last.after`.
AskedAfter(op) == last.op = "needs_sync" /\ convex_client /\ last.after.op = op

\* C34: with a remote client needs_sync returns false right after a sync_with_cloud
\* that succeeded and was not skipped and right after a save_lifelogs whose remote
\* push succeeded, and returns true right after a save_lifelogs of a non-empty list
\* whose remote push failed.
C34_NeedsSyncFollowsPush ==
    /\ (/\ AskedAfter("sync_with_cloud")
        /\ last.after.result.success
        /\ "skipped" \notin DOMAIN last.after.result) => last.result = Return(FALSE)
    /\ (/\ AskedAfter("save_lifelogs")
        /\ last.after.calls = <<Ok("lifelogs:batchAdd")>>) => last.result = Return(FALSE)
    /\ (/\ AskedAfter("save_lifelogs")
        /\ last.after.calls = <<Raised("lifelogs:batchAdd")>>) => last.result = Return(TRUE)

\* A non-forced sync_with_cloud has returned, called in a state in which needs_sync()
\* returns true.
SyncWhenNeeded ==
    /\ last.op = "sync_with_cloud"
    /\ last.args = <<FALSE>>
    /\ convex_client
    /\ sync_needed(last.pre.db.meta)

\* The cloud sync time recorded when the call was made is less than five minutes old.
CloudTimeRecent ==
    /\ last.pre.db.meta.cloud_update_time # None
    /\ now - last.pre.db.meta.cloud_update_time[1].iso < SYNC_GRACE_MINUTES

\* The call asked the remote for its records.
Contacted == last.calls # <<>> /\ last.calls[1].fn = "lifelogs:getAll"

C36_SkipOnlyAfterReconciliation ==
    SyncSkipped =>
        /\ last.pre.reconciled # None
        /\ now - last.pre.reconciled[1] < SYNC_GRACE_MINUTES

====
